---- MODULE Spec2Model ----
(***************************************************************************)
(* Model of the Marvel credits service: the pure reducers of               *)
(* utils/dataProcessor.js (name normalisation, fuzzy identity matching,    *)
(* greedy clustering, the three views), the single-flight memoising        *)
(* MovieDataService and the controller handlers in front of it.            *)
(*                                                                         *)
(* A JavaScript string is a sequence of one-character strings, so that     *)
(* the regular expression of cleanCharacterName and the scores of the      *)
(* fuzzball library are computed character by character.  A JavaScript     *)
(* object used as a map is the sequence of its <<key, value>> entries in   *)
(* insertion order.                                                        *)
(***************************************************************************)
EXTENDS Integers, Sequences, FiniteSets, TLC

\* ------------------------------------------------------------------------
\* Bounds of the model
\* ------------------------------------------------------------------------
MaxMovies == 3
MaxCast == 1
MaxEntries == 3
MaxRequests == 3
MaxLabelLen == 5

\* ------------------------------------------------------------------------
\* Strings
\* ------------------------------------------------------------------------
TOKEN_SET_THRESHOLD == 80
RATIO_THRESHOLD == 50

\* JavaScript undefined/null: a value different from every string.
Undefined == <<"undefined">>

\* UTF-16 code of the characters the labels are written in.
CharCode(c) ==
    CASE c = " " -> 32
      [] c = "(" -> 40
      [] c = ")" -> 41
      [] c = "_" -> 95
      [] c = "a" -> 97
      [] c = "b" -> 98
      [] c = "c" -> 99
      [] c = "o" -> 111
      [] c = "p" -> 112
      [] c = "r" -> 114
      [] c = "t" -> 116
      [] OTHER -> 122

IsSpace(c) == c = " "

IsAlnum(c) == c \notin {" ", "(", ")", "_"}

\* Number of whitespace characters s starts with.
RECURSIVE SpaceRun(_)
SpaceRun(s) ==
    IF s = <<>> \/ ~IsSpace(Head(s)) THEN 0 ELSE 1 + SpaceRun(Tail(s))

\* String.prototype.trim
RECURSIVE TrimLeft(_)
TrimLeft(s) == IF s # <<>> /\ IsSpace(Head(s)) THEN TrimLeft(Tail(s)) ELSE s

RECURSIVE TrimRight(_)
TrimRight(s) ==
    IF s # <<>> /\ IsSpace(s[Len(s)])
    THEN TrimRight(SubSeq(s, 1, Len(s) - 1))
    ELSE s

Trim(s) == TrimRight(TrimLeft(s))

\* The replacement without the g flag: only the leftmost match is removed.
RECURSIVE StripFirstParens(_)
StripFirstParens(s) ==
    IF s = <<>> THEN <<>>
    ELSE LET j == SpaceRun(s) + 1
             closers == IF j <= Len(s) /\ s[j] = "("
                        THEN {k \in (j + 1)..Len(s) : s[k] = ")"}
                        ELSE {}
         IN IF closers = {}
            THEN <<Head(s)>> \o StripFirstParens(Tail(s))
            ELSE LET k == CHOOSE x \in closers : \A y \in closers : x <= y
                     rest == SubSeq(s, k + 1, Len(s))
                 IN SubSeq(rest, SpaceRun(rest) + 1, Len(rest))

\* name.replace(/\s*\([^)]*\)\s*/g, ''): at each position, leftmost first,
\* the pattern matches when the run of whitespace starting there is followed
\* by "(" and a ")" occurs later; the match ends after the first such ")"
\* and the whitespace that follows it.  The search resumes after the match.
RECURSIVE StripParens(_)
StripParens(s) ==
    IF s = <<>> THEN <<>>
    ELSE LET j == SpaceRun(s) + 1
             closers == IF j <= Len(s) /\ s[j] = "("
                        THEN {k \in (j + 1)..Len(s) : s[k] = ")"}
                        ELSE {}
         IN IF closers = {}
            THEN <<Head(s)>> \o StripParens(Tail(s))
            ELSE LET k == CHOOSE x \in closers : \A y \in closers : x <= y
                     rest == SubSeq(s, k + 1, Len(s))
                 IN StripParens(SubSeq(rest, SpaceRun(rest) + 1, Len(rest)))

cleanCharacterName(name) ==
    IF name = Undefined \/ name = <<>> THEN <<>> ELSE Trim(StripParens(name))

\* fuzzball full_process (default options): every non-alphanumeric character
\* becomes a space, whitespace runs collapse to one space, then trim.
RECURSIVE CollapseWhitespace(_)
CollapseWhitespace(s) ==
    IF s = <<>> THEN <<>>
    ELSE IF IsSpace(Head(s))
         THEN <<" ">> \o CollapseWhitespace(SubSeq(s, SpaceRun(s) + 1, Len(s)))
         ELSE <<Head(s)>> \o CollapseWhitespace(Tail(s))

full_process(s) ==
    Trim(CollapseWhitespace([i \in 1..Len(s) |-> IF IsAlnum(s[i]) THEN s[i] ELSE " "]))

\* Edit distance with insertion and deletion cost 1, substitution cost 2
\* (fuzzball's default subcost), computed row by row: row[j + 1] is the
\* distance between the characters of s read so far and the first j of t.
Min3(x, y, z) ==
    LET m == IF x < y THEN x ELSE y IN IF z < m THEN z ELSE m

RECURSIVE LevenRow(_, _, _, _)
LevenRow(prev, c, t, row) ==
    IF Len(row) = Len(t) + 1 THEN row
    ELSE LET j == Len(row)
         IN LevenRow(prev, c, t,
                Append(row, Min3(prev[j + 1] + 1,
                                 row[j] + 1,
                                 prev[j] + (IF c = t[j] THEN 0 ELSE 2))))

RECURSIVE LevenRows(_, _, _)
LevenRows(s, t, prev) ==
    IF s = <<>> THEN prev
    ELSE LevenRows(Tail(s), t, LevenRow(prev, Head(s), t, <<prev[1] + 1>>))

Leven(s, t) == LevenRows(s, t, [j \in 1..(Len(t) + 1) |-> j - 1])[Len(t) + 1]

\* fuzzball _ratio: 0 for an empty string, else
\* Math.round(100 * (lensum - distance) / lensum).
Ratio(s, t) ==
    IF s = <<>> \/ t = <<>> THEN 0
    ELSE LET lensum == Len(s) + Len(t)
         IN (200 * (lensum - Leven(s, t)) + lensum) \div (2 * lensum)

\* fuzz.ratio(a, b)
ratio(a, b) ==
    IF a = <<>> \/ b = <<>> THEN 0 ELSE Ratio(full_process(a), full_process(b))

\* str.match(/\S+/g): the maximal runs of non-whitespace, in order.
RECURSIVE Words(_)
Words(s) ==
    LET t == TrimLeft(s)
    IN IF t = <<>> THEN <<>>
       ELSE LET n == CHOOSE k \in 1..Len(t) :
                        /\ \A i \in 1..k : ~IsSpace(t[i])
                        /\ (k = Len(t) \/ IsSpace(t[k + 1]))
            IN <<SubSeq(t, 1, n)>> \o Words(SubSeq(t, n + 1, Len(t)))

\* Keeps the first occurrence of every element.
RECURSIVE Uniq(_)
Uniq(q) ==
    IF q = <<>> THEN <<>>
    ELSE LET r == Uniq(SubSeq(q, 1, Len(q) - 1))
             x == q[Len(q)]
         IN IF \E i \in 1..Len(r) : r[i] = x THEN r ELSE Append(r, x)

Tokenize(s) == Uniq(Words(s))

\* Order of Array.prototype.sort on strings: by code unit, a prefix first.
RECURSIVE StrLess(_, _)
StrLess(s, t) ==
    IF t = <<>> THEN FALSE
    ELSE IF s = <<>> THEN TRUE
    ELSE IF CharCode(Head(s)) # CharCode(Head(t))
         THEN CharCode(Head(s)) < CharCode(Head(t))
         ELSE StrLess(Tail(s), Tail(t))

RECURSIVE SortTokens(_)
SortTokens(q) ==
    IF q = <<>> THEN <<>>
    ELSE LET m == CHOOSE i \in 1..Len(q) : \A j \in 1..Len(q) : ~StrLess(q[j], q[i])
         IN <<q[m]>> \o SortTokens([i \in 1..(Len(q) - 1) |-> IF i < m THEN q[i] ELSE q[i + 1]])

\* tokens.join(" ")
RECURSIVE Join(_)
Join(q) ==
    IF q = <<>> THEN <<>>
    ELSE IF Len(q) = 1 THEN q[1]
    ELSE q[1] \o <<" ">> \o Join(Tail(q))

Max3(x, y, z) ==
    LET m == IF x > y THEN x ELSE y IN IF z > m THEN z ELSE m

\* fuzz.token_set_ratio(a, b)
token_set_ratio(a, b) ==
    IF a = <<>> \/ b = <<>> THEN 0
    ELSE LET tokens1 == Tokenize(full_process(a))
             tokens2 == Tokenize(full_process(b))
             In(q, x) == \E i \in 1..Len(q) : q[i] = x
             intersection == SelectSeq(tokens1, LAMBDA x : In(tokens2, x))
             diff1to2 == SelectSeq(tokens1, LAMBDA x : ~In(tokens2, x))
             diff2to1 == SelectSeq(tokens2, LAMBDA x : ~In(tokens1, x))
             sorted_sect == Join(SortTokens(intersection))
             combined_1to2 == Trim(sorted_sect \o <<" ">> \o Join(SortTokens(diff1to2)))
             combined_2to1 == Trim(sorted_sect \o <<" ">> \o Join(SortTokens(diff2to1)))
         IN Max3(Ratio(sorted_sect, combined_1to2),
                 Ratio(sorted_sect, combined_2to1),
                 Ratio(combined_1to2, combined_2to1))

\* A shortcut that takes identical names for the same character before
\* anything else.
isSameCharacterOrIdentical(name1, name2) ==
    LET clean1 == cleanCharacterName(name1)
        clean2 == cleanCharacterName(name2)
    IN IF name1 = name2 THEN TRUE
       ELSE IF clean1 = <<>> \/ clean2 = <<>> THEN FALSE
       ELSE /\ token_set_ratio(clean1, clean2) >= TOKEN_SET_THRESHOLD
            /\ ratio(clean1, clean2) >= RATIO_THRESHOLD

\* The second name scored as given, without cleaning it.
isSameCharacterRawSecond(name1, name2) ==
    LET clean1 == cleanCharacterName(name1)
    IN IF clean1 = <<>> \/ name2 = Undefined \/ name2 = <<>> THEN FALSE
       ELSE /\ token_set_ratio(clean1, name2) >= TOKEN_SET_THRESHOLD
            /\ ratio(clean1, name2) >= RATIO_THRESHOLD

isSameCharacter(name1, name2) ==
    LET clean1 == cleanCharacterName(name1)
        clean2 == cleanCharacterName(name2)
    IN IF clean1 = <<>> \/ clean2 = <<>> THEN FALSE
       ELSE /\ token_set_ratio(clean1, clean2) >= TOKEN_SET_THRESHOLD
            /\ ratio(clean1, clean2) >= RATIO_THRESHOLD

\* ------------------------------------------------------------------------
\* JavaScript objects used as maps: <<key, value>> entries in insertion order
\* ------------------------------------------------------------------------
ObjKeys(obj) == {obj[i][1] : i \in 1..Len(obj)}

ObjHas(obj, k) == \E i \in 1..Len(obj) : obj[i][1] = k

ObjGet(obj, k) == obj[CHOOSE i \in 1..Len(obj) : obj[i][1] = k][2]

\* obj[k] = v: an existing key keeps its place, a new key goes last.
ObjSet(obj, k, v) ==
    IF ObjHas(obj, k)
    THEN [i \in 1..Len(obj) |-> IF obj[i][1] = k THEN <<k, v>> ELSE obj[i]]
    ELSE Append(obj, <<k, v>>)

\* A push that skips a value the array already holds.
ObjPushOnce(obj, k, v) ==
    IF ObjHas(obj, k)
    THEN IF \E i \in 1..Len(ObjGet(obj, k)) : ObjGet(obj, k)[i] = v
         THEN obj
         ELSE ObjSet(obj, k, Append(ObjGet(obj, k), v))
    ELSE Append(obj, <<k, <<v>>>>)

\* if (!obj[k]) obj[k] = []; obj[k].push(v)
ObjPush(obj, k, v) ==
    IF ObjHas(obj, k) THEN ObjSet(obj, k, Append(ObjGet(obj, k), v))
    ELSE Append(obj, <<k, <<v>>>>)

\* ------------------------------------------------------------------------
\* utils/dataProcessor.js: the three reducers
\* ------------------------------------------------------------------------
\* A field of a cast entry that may be missing.
Field(entry, f) == IF f \in DOMAIN entry THEN entry[f] ELSE Undefined

\* !credits?.cast is false: the record has a cast array (possibly empty).
HasCast(record) == "cast" \in DOMAIN record.credits

\* A filter test that lets every named performer through.
InFilterAny(actorFilter, entry) == "name" \in DOMAIN entry

\* actorFilter.has(actorName)
InFilter(actorFilter, entry) == "name" \in DOMAIN entry /\ entry.name \in actorFilter

\* The loop that stops at the first record without cast instead of
\* going on with the next record.
RECURSIVE AppearancesUntilNoCast(_, _)
AppearancesUntilNoCast(creditsData, actorFilter) ==
    IF creditsData = <<>> \/ ~HasCast(Head(creditsData)) THEN <<>>
    ELSE LET record == Head(creditsData)
             kept == SelectSeq(record.credits.cast, LAMBDA e : InFilter(actorFilter, e))
         IN [i \in 1..Len(kept) |->
                [movieName |-> record.movieName,
                 actorName |-> kept[i].name,
                 characterName |-> Field(kept[i], "character")]]
            \o AppearancesUntilNoCast(Tail(creditsData), actorFilter)

\* The loop header the three reducers share: movies in list order, cast
\* entries in cast order, records without cast and performers outside the
\* filter skipped.
RECURSIVE Appearances(_, _)
Appearances(creditsData, actorFilter) ==
    IF creditsData = <<>> THEN <<>>
    ELSE LET record == Head(creditsData)
             cast == IF HasCast(record) THEN record.credits.cast ELSE <<>>
             kept == SelectSeq(cast, LAMBDA e : InFilter(actorFilter, e))
         IN [i \in 1..Len(kept) |->
                [movieName |-> record.movieName,
                 actorName |-> kept[i].name,
                 characterName |-> Field(kept[i], "character")]]
            \o Appearances(Tail(creditsData), actorFilter)

\* findLast instead of find: the last group the label belongs to.
FindLastGroup(leaders, characterName) ==
    LET hits == {i \in 1..Len(leaders) : isSameCharacter(leaders[i], characterName)}
    IN IF hits = {} THEN 0 ELSE CHOOSE i \in hits : \A j \in hits : i >= j

\* Array.prototype.find over the groups: index of the first group the
\* label belongs to, 0 when there is none.
FindGroup(leaders, characterName) ==
    LET hits == {i \in 1..Len(leaders) : isSameCharacter(leaders[i], characterName)}
    IN IF hits = {} THEN 0 ELSE CHOOSE i \in hits : \A j \in hits : i <= j

RECURSIVE MoviesPerActorLoop(_, _)
MoviesPerActorLoop(apps, result) ==
    IF apps = <<>> THEN result
    ELSE MoviesPerActorLoop(Tail(apps),
                            ObjPush(result, Head(apps).actorName, Head(apps).movieName))

buildMoviesPerActor(creditsData, actorFilter) ==
    MoviesPerActorLoop(Appearances(creditsData, actorFilter), <<>>)

\* First loop of buildActorsWithMultipleCharacters: appearances per actor.
RECURSIVE CollectActorAppearances(_, _)
CollectActorAppearances(apps, actorAppearances) ==
    IF apps = <<>> THEN actorAppearances
    ELSE CollectActorAppearances(Tail(apps),
            ObjPush(actorAppearances, Head(apps).actorName,
                    [movieName |-> Head(apps).movieName,
                     characterName |-> Head(apps).characterName]))

\* A grouping step that compares with every member of a group
\* (group.some) instead of the first one.
ActorGroupStepAnyMember(characterGroups, appearance) ==
    LET hits == {i \in 1..Len(characterGroups) :
                    \E m \in 1..Len(characterGroups[i]) :
                       isSameCharacter(characterGroups[i][m].characterName,
                                       appearance.characterName)}
    IN IF hits # {}
       THEN [characterGroups EXCEPT
                ![CHOOSE i \in hits : \A j \in hits : i <= j] = Append(@, appearance)]
       ELSE Append(characterGroups, <<appearance>>)

\* A grouping step without the else: an appearance that joins a group
\* also starts a group of its own.
ActorGroupStepWithoutElse(characterGroups, appearance) ==
    LET g == FindGroup([i \in 1..Len(characterGroups) |-> characterGroups[i][1].characterName],
                       appearance.characterName)
    IN IF g # 0
       THEN Append([characterGroups EXCEPT ![g] = Append(@, appearance)], <<appearance>>)
       ELSE Append(characterGroups, <<appearance>>)

\* One iteration of the grouping loop of buildActorsWithMultipleCharacters:
\* groups are arrays of appearances, compared by their first member.
ActorGroupStep(characterGroups, appearance) ==
    LET g == FindGroup([i \in 1..Len(characterGroups) |-> characterGroups[i][1].characterName],
                       appearance.characterName)
    IN IF g # 0
       THEN [characterGroups EXCEPT ![g] = Append(@, appearance)]
       ELSE Append(characterGroups, <<appearance>>)

RECURSIVE ActorGroups(_, _)
ActorGroups(appearances, characterGroups) ==
    IF appearances = <<>> THEN characterGroups
    ELSE ActorGroups(Tail(appearances), ActorGroupStep(characterGroups, Head(appearances)))

\* An off-by-one group count test.
HasAnyCharacter(characterGroups) == Len(characterGroups) >= 1

\* characterGroups.length > 1
HasMultipleCharacters(characterGroups) == Len(characterGroups) > 1

\* The last member of each group instead of the first.
LastMembers(characterGroups) ==
    [i \in 1..Len(characterGroups) |-> characterGroups[i][Len(characterGroups[i])]]

\* characterGroups.map(group => group[0])
Representatives(characterGroups) ==
    [i \in 1..Len(characterGroups) |-> characterGroups[i][1]]

RECURSIVE ActorsResultLoop(_, _)
ActorsResultLoop(entries, result) ==
    IF entries = <<>> THEN result
    ELSE LET actorName == Head(entries)[1]
             characterGroups == ActorGroups(Head(entries)[2], <<>>)
         IN ActorsResultLoop(Tail(entries),
                IF HasMultipleCharacters(characterGroups)
                THEN ObjSet(result, actorName, Representatives(characterGroups))
                ELSE result)

buildActorsWithMultipleCharacters(creditsData, actorFilter) ==
    ActorsResultLoop(
        CollectActorAppearances(Appearances(creditsData, actorFilter), <<>>), <<>>)

\* A grouping step that looks for a group of exactly the same name
\* (group.name === characterName) instead of asking isSameCharacter.
CharacterGroupStepExactName(characterGroups, app) ==
    LET hits == {i \in 1..Len(characterGroups) : characterGroups[i].name = app.characterName}
        appearance == [movieName |-> app.movieName, actorName |-> app.actorName]
    IN IF hits # {}
       THEN [characterGroups EXCEPT
                ![CHOOSE i \in hits : \A j \in hits : i <= j].appearances =
                    Append(@, appearance)]
       ELSE Append(characterGroups,
                   [name |-> app.characterName, appearances |-> <<appearance>>])

\* A grouping step that renames the group after the appearance that joins.
CharacterGroupStepRenaming(characterGroups, app) ==
    LET g == FindGroup([i \in 1..Len(characterGroups) |-> characterGroups[i].name],
                       app.characterName)
        appearance == [movieName |-> app.movieName, actorName |-> app.actorName]
    IN IF g # 0
       THEN [characterGroups EXCEPT
                ![g] = [name |-> app.characterName,
                        appearances |-> Append(@.appearances, appearance)]]
       ELSE Append(characterGroups,
                   [name |-> app.characterName, appearances |-> <<appearance>>])

\* One iteration of the grouping loop of buildCharactersWithMultipleActors:
\* groups are { name, appearances }, compared by name.
CharacterGroupStep(characterGroups, app) ==
    LET g == FindGroup([i \in 1..Len(characterGroups) |-> characterGroups[i].name],
                       app.characterName)
        appearance == [movieName |-> app.movieName, actorName |-> app.actorName]
    IN IF g # 0
       THEN [characterGroups EXCEPT ![g].appearances = Append(@, appearance)]
       ELSE Append(characterGroups,
                   [name |-> app.characterName, appearances |-> <<appearance>>])

RECURSIVE CharacterGroups(_, _)
CharacterGroups(apps, characterGroups) ==
    IF apps = <<>> THEN characterGroups
    ELSE CharacterGroups(Tail(apps), CharacterGroupStep(characterGroups, Head(apps)))

\* Counts appearances instead of distinct performers.
HasMultipleAppearances(appearances) == Len(appearances) > 1

\* uniqueActors.size > 1
HasMultipleActors(appearances) ==
    Cardinality({appearances[i].actorName : i \in 1..Len(appearances)}) > 1

\* The key with which an assignment to a plain object replaces the
\* prototype of the object instead of defining a property.
ProtoKey == <<"_", "_", "p", "r", "o", "t", "o", "_", "_">>

\* result[group.name] = group.appearances, the value being an array.
SetLabelKey(result, name, value) ==
    IF name = ProtoKey THEN result ELSE ObjSet(result, name, value)

RECURSIVE CharactersResultLoop(_, _)
CharactersResultLoop(characterGroups, result) ==
    IF characterGroups = <<>> THEN result
    ELSE LET group == Head(characterGroups)
         IN CharactersResultLoop(Tail(characterGroups),
                IF HasMultipleActors(group.appearances)
                THEN SetLabelKey(result, group.name, group.appearances)
                ELSE result)

buildCharactersWithMultipleActors(creditsData, actorFilter) ==
    CharactersResultLoop(
        CharacterGroups(Appearances(creditsData, actorFilter), <<>>), <<>>)

\* ------------------------------------------------------------------------
\* Input domains
\* ------------------------------------------------------------------------
Actors == {"X", "Y"}

Filters == {{"X"}, {"X", "Y"}}

MovieNames == {"M1", "M2"}

\* Role labels: "a", "a b", "b".  "a b" is the same character as "a" and as
\* "b", while "a" and "b" are different characters.
LabelA == <<"a">>
LabelAB == <<"a", " ", "b">>
LabelB == <<"b">>

\* "(c)" is an annotation only: it normalises to the empty string.
LabelNote == <<"(", "c", ")">>

Labels == {LabelA, LabelAB, LabelB, LabelNote}

CastEntries == [name : Actors, character : Labels]

\* Cast size of each record of a credit list: NoCast for credits without a
\* cast array (a record with crew only).
NoCast == 0 - 1

Shapes(k) == [1..k -> NoCast..MaxCast]

CastLen(size) == IF size = NoCast THEN 0 ELSE size

RECURSIVE TotalCast(_, _)
TotalCast(shape, k) == IF k = 0 THEN 0 ELSE TotalCast(shape, k - 1) + CastLen(shape[k])

\* The credit list with the given movie names and cast sizes whose cast
\* entries are, in list order, the given entries.
CreditList(names, shape, entries) ==
    [i \in 1..Len(names) |->
        [movieName |-> names[i],
         credits |-> IF shape[i] = NoCast
                     THEN [crew |-> <<>>]
                     ELSE [cast |-> SubSeq(entries, TotalCast(shape, i - 1) + 1,
                                           TotalCast(shape, i))]]]

\* ------------------------------------------------------------------------
\* State
\* ------------------------------------------------------------------------
Null == <<>>

Requests == 1..MaxRequests

\* The fields of the processed data, one per view accessor.
Accessors == {"moviesPerActor", "actorsWithMultipleCharacters",
              "charactersWithMultipleActors"}

VARIABLES
    creditsData,   \* the raw credits handed to the reducers
    actorFilter,   \* the performer filter (MovieDataService.#actorFilter)
    processed,     \* Null before the reducers ran, then the three views
    cache,         \* MovieDataService.#cache: Null or the processed data
    fetchPromise,  \* MovieDataService.#fetchPromise: 0 (null) or a promise
    promises,      \* the promises #fetchAndProcess returned, one per call of
                   \* getAllMoviesCredits: [state, value]
    pc,            \* where each request is
    accessor,      \* the view accessor each request calls
    awaited,       \* the promise each request waits on, 0 for none
    result,        \* the processed data #getProcessedData gave the request
    responses,     \* the responses sent to each request
    left,          \* a role label handed to cleanCharacterName/isSameCharacter
    right,         \* the label it is compared with
    cleaned,       \* Null, then the label cleaned once and cleaned twice
    verdict,       \* Null, then isSameCharacter in both argument orders
    pass,          \* the grouping loop that runs: [loop |-> "characters"], or
                   \* [loop |-> "actors", actorName |-> ...] for one performer
    queue,         \* the appearances the grouping loop has still to take
    groups         \* characterGroups of the running grouping loop

viewVars == <<creditsData, actorFilter, processed>>

serviceVars == <<cache, fetchPromise, promises, pc, accessor, awaited, result, responses>>

labelVars == <<left, right, cleaned, verdict>>

clusterVars == <<pass, queue, groups>>

vars == <<creditsData, actorFilter, processed, cache, fetchPromise, promises, pc,
          accessor, awaited, result, responses, left, right, cleaned, verdict,
          pass, queue, groups>>

\* The object #fetchAndProcess returns.
ProcessedData(data, filter) ==
    [moviesPerActor |-> buildMoviesPerActor(data, filter),
     actorsWithMultipleCharacters |-> buildActorsWithMultipleCharacters(data, filter),
     charactersWithMultipleActors |-> buildCharactersWithMultipleActors(data, filter)]

\* The service after construction, before any request.
ServiceIdle ==
    /\ cache = Null
    /\ fetchPromise = 0
    /\ promises = <<>>
    /\ pc = [r \in Requests |-> "idle"]
    /\ accessor = [r \in Requests |-> "moviesPerActor"]
    /\ awaited = [r \in Requests |-> 0]
    /\ result = [r \in Requests |-> Null]
    /\ responses = [r \in Requests |-> <<>>]

\* No label under comparison.
LabelsIdle ==
    /\ left = <<>>
    /\ right = <<>>
    /\ cleaned = Null
    /\ verdict = Null

\* No grouping loop running.
ClusterIdle ==
    /\ pass = [loop |-> "none"]
    /\ queue = <<>>
    /\ groups = <<>>

\* ------------------------------------------------------------------------
\* The reducers applied to every bounded input
\* ------------------------------------------------------------------------
InitViews ==
    /\ \E k \in 0..MaxMovies :
         \E names \in [1..k -> MovieNames], shape \in Shapes(k) :
            /\ TotalCast(shape, k) <= MaxEntries
            /\ \E entries \in [1..TotalCast(shape, k) -> CastEntries] :
                  creditsData = CreditList(names, shape, entries)
    /\ actorFilter \in Filters
    /\ processed = Null
    /\ ServiceIdle
    /\ LabelsIdle
    /\ ClusterIdle

Process ==
    /\ processed = Null
    /\ processed' = ProcessedData(creditsData, actorFilter)
    /\ UNCHANGED <<creditsData, actorFilter>>
    /\ UNCHANGED <<serviceVars, labelVars, clusterVars>>

NextViews == Process

SpecViews == InitViews /\ [][NextViews]_vars

\* ------------------------------------------------------------------------
\* The reducers applied to credit lists with incomplete cast entries
\* ------------------------------------------------------------------------
\* Cast entries as the upstream may deliver them: complete, without a
\* character, without a name, or with neither (only fields the reducers do
\* not read).
CompleteEntries == [name : Actors, character : {LabelA, LabelB}]

IncompleteEntries ==
    [name : Actors] \cup [character : {LabelA, LabelB}] \cup {[order |-> 0]}

InitEntries ==
    /\ \E k \in 0..MaxMovies :
         \E names \in [1..k -> MovieNames], shape \in Shapes(k) :
            /\ TotalCast(shape, k) <= MaxEntries
            /\ \E entries \in [1..TotalCast(shape, k) ->
                                   CompleteEntries \cup IncompleteEntries] :
                  creditsData = CreditList(names, shape, entries)
    /\ actorFilter \in Filters
    /\ processed = Null
    /\ ServiceIdle
    /\ LabelsIdle
    /\ ClusterIdle

SpecEntries == InitEntries /\ [][NextViews]_vars

\* ------------------------------------------------------------------------
\* cleanCharacterName and isSameCharacter applied to every bounded label
\* ------------------------------------------------------------------------
\* Labels written with a letter, spaces and parentheses, nested, unbalanced
\* and adjacent ones included.
Alphabet == {"a", " ", "(", ")"}

Strings(n) == UNION {[1..k -> Alphabet] : k \in 0..n}

\* The labels every label is compared with: null, the empty string, an
\* annotation only, "a", "a b", "b", "b a" and "a (c c)".
Probes ==
    {Undefined, <<>>, LabelNote, LabelA, LabelAB, LabelB,
     <<"b", " ", "a">>, <<"a", " ", "(", "c", " ", "c", ")">>}

InitLabels ==
    /\ left \in Strings(MaxLabelLen) \cup {Undefined}
    /\ right \in Probes
    /\ cleaned = Null
    /\ verdict = Null
    /\ creditsData = <<>>
    /\ actorFilter = {}
    /\ processed = Null
    /\ ServiceIdle
    /\ ClusterIdle

\* cleanCharacterName(left), and cleanCharacterName of its result.
Clean ==
    /\ cleaned = Null
    /\ cleaned' = [once |-> cleanCharacterName(left),
                   twice |-> cleanCharacterName(cleanCharacterName(left))]
    /\ UNCHANGED <<left, right, verdict>>
    /\ UNCHANGED <<viewVars, serviceVars, clusterVars>>

\* isSameCharacter(left, right) and isSameCharacter(right, left).
Compare ==
    /\ verdict = Null
    /\ verdict' = [forward |-> isSameCharacter(left, right),
                   backward |-> isSameCharacter(right, left)]
    /\ UNCHANGED <<left, right, cleaned>>
    /\ UNCHANGED <<viewVars, serviceVars, clusterVars>>

NextLabels == Clean \/ Compare

SpecLabels == InitLabels /\ [][NextLabels]_vars

\* ------------------------------------------------------------------------
\* The grouping loops, one appearance at a time
\* ------------------------------------------------------------------------
\* Cast entries of the credit lists the loops run on: the labels above, or
\* no character field.
GroupingEntries == CastEntries \cup [name : Actors]

\* The title of the i-th record.
TitleAt(i) == IF i % 2 = 1 THEN "M1" ELSE "M2"

\* The appearances a grouping loop iterates over: the filtered cast entries
\* of all records for buildCharactersWithMultipleActors, the collected
\* appearances of one performer for buildActorsWithMultipleCharacters.
LoopInput(data, filter, p) ==
    IF p.loop = "characters" THEN Appearances(data, filter)
    ELSE IF p.loop = "actors"
    THEN ObjGet(CollectActorAppearances(Appearances(data, filter), <<>>), p.actorName)
    ELSE <<>>

InitCluster ==
    /\ \E k \in 0..MaxEntries :
         \E entries \in [1..k -> GroupingEntries] :
            creditsData = [i \in 1..k |->
                              [movieName |-> TitleAt(i),
                               credits |-> [cast |-> <<entries[i]>>]]]
    /\ actorFilter = Actors
    /\ \/ pass = [loop |-> "characters"]
       \/ \E a \in ObjKeys(CollectActorAppearances(
                                Appearances(creditsData, actorFilter), <<>>)) :
             pass = [loop |-> "actors", actorName |-> a]
    /\ queue = LoopInput(creditsData, actorFilter, pass)
    /\ groups = <<>>
    /\ processed = Null
    /\ ServiceIdle
    /\ LabelsIdle

\* One iteration of the loop at part_000:101.
GroupActorAppearance ==
    /\ pass.loop = "actors"
    /\ queue # <<>>
    /\ groups' = ActorGroupStep(groups, Head(queue))
    /\ queue' = Tail(queue)
    /\ UNCHANGED pass
    /\ UNCHANGED <<viewVars, serviceVars, labelVars>>

\* One iteration of the loop at part_000:137 that passes the filter.
GroupCharacterAppearance ==
    /\ pass.loop = "characters"
    /\ queue # <<>>
    /\ groups' = CharacterGroupStep(groups, Head(queue))
    /\ queue' = Tail(queue)
    /\ UNCHANGED pass
    /\ UNCHANGED <<viewVars, serviceVars, labelVars>>

\* After the grouping loop of one performer: part_000:114-117.
WriteActorResult ==
    /\ pass.loop = "actors"
    /\ queue = <<>>
    /\ processed = Null
    /\ processed' = [result |-> IF HasMultipleCharacters(groups)
                                THEN ObjSet(<<>>, pass.actorName, Representatives(groups))
                                ELSE <<>>]
    /\ UNCHANGED <<creditsData, actorFilter>>
    /\ UNCHANGED <<serviceVars, labelVars, clusterVars>>

\* After the grouping loop over all records: part_000:157-167.
WriteCharacterResult ==
    /\ pass.loop = "characters"
    /\ queue = <<>>
    /\ processed = Null
    /\ processed' = [result |-> CharactersResultLoop(groups, <<>>)]
    /\ UNCHANGED <<creditsData, actorFilter>>
    /\ UNCHANGED <<serviceVars, labelVars, clusterVars>>

NextCluster == GroupActorAppearance \/ GroupCharacterAppearance

SpecCluster == InitCluster /\ [][NextCluster]_vars

\* ------------------------------------------------------------------------
\* The grouping loops followed by the writing of the result, on character
\* names that include an object key with a special meaning
\* ------------------------------------------------------------------------
KeyEntries == [name : Actors, character : {LabelA, LabelNote, ProtoKey}]

InitKeys ==
    /\ \E k \in 0..MaxEntries :
         \E entries \in [1..k -> KeyEntries] :
            creditsData = [i \in 1..k |->
                              [movieName |-> TitleAt(i),
                               credits |-> [cast |-> <<entries[i]>>]]]
    /\ actorFilter = Actors
    /\ \/ pass = [loop |-> "characters"]
       \/ \E a \in ObjKeys(CollectActorAppearances(
                                Appearances(creditsData, actorFilter), <<>>)) :
             pass = [loop |-> "actors", actorName |-> a]
    /\ queue = LoopInput(creditsData, actorFilter, pass)
    /\ groups = <<>>
    /\ processed = Null
    /\ ServiceIdle
    /\ LabelsIdle

NextKeys == NextCluster \/ WriteActorResult \/ WriteCharacterResult

SpecKeys == InitKeys /\ [][NextKeys]_vars

\* ------------------------------------------------------------------------
\* MovieDataService and the controller
\* ------------------------------------------------------------------------
\* The performers the service is constructed with.
ServiceFilter == {"X", "Y"}

Cast(n, c) == [name |-> n, character |-> c]

Movie(m, cast) == [movieName |-> m, credits |-> [cast |-> cast]]

\* The credit lists getAllMoviesCredits may resolve with.
UpstreamData ==
    {<<Movie("M1", <<Cast("X", LabelA), Cast("Y", LabelA)>>),
       Movie("M2", <<Cast("X", LabelB)>>)>>,
     <<Movie("M1", <<Cast("X", LabelB)>>),
       Movie("M2", <<Cast("Y", LabelB), Cast("Y", LabelA)>>)>>}

Settled(p) == promises[p].state # "pending"

\* #getProcessedData without the test of the in-flight promise.
CallWithoutInflightCheck(r, acc) ==
    /\ pc[r] = "idle"
    /\ accessor' = [accessor EXCEPT ![r] = acc]
    /\ IF cache # Null
       THEN /\ pc' = [pc EXCEPT ![r] = "resolved"]
            /\ result' = [result EXCEPT ![r] = cache]
            /\ UNCHANGED <<fetchPromise, promises, awaited>>
       ELSE /\ promises' = Append(promises, [state |-> "pending", value |-> Null])
            /\ fetchPromise' = Len(promises) + 1
            /\ pc' = [pc EXCEPT ![r] = "awaitFetch"]
            /\ awaited' = [awaited EXCEPT ![r] = Len(promises) + 1]
            /\ UNCHANGED result
    /\ UNCHANGED <<cache, responses>>
    /\ UNCHANGED <<viewVars, labelVars, clusterVars>>

\* #getProcessedData without the test of the cache.
CallWithoutCacheCheck(r, acc) ==
    /\ pc[r] = "idle"
    /\ accessor' = [accessor EXCEPT ![r] = acc]
    /\ IF fetchPromise # 0
       THEN /\ pc' = [pc EXCEPT ![r] = "awaitShared"]
            /\ awaited' = [awaited EXCEPT ![r] = fetchPromise]
            /\ UNCHANGED <<fetchPromise, promises, result>>
       ELSE /\ promises' = Append(promises, [state |-> "pending", value |-> Null])
            /\ fetchPromise' = Len(promises) + 1
            /\ pc' = [pc EXCEPT ![r] = "awaitFetch"]
            /\ awaited' = [awaited EXCEPT ![r] = Len(promises) + 1]
            /\ UNCHANGED result
    /\ UNCHANGED <<cache, responses>>
    /\ UNCHANGED <<viewVars, labelVars, clusterVars>>

\* A request arrives: the handler calls its accessor, which runs
\* #getProcessedData up to its first suspension.
Call(r, acc) ==
    /\ pc[r] = "idle"
    /\ accessor' = [accessor EXCEPT ![r] = acc]
    /\ IF cache # Null
       THEN /\ pc' = [pc EXCEPT ![r] = "resolved"]
            /\ result' = [result EXCEPT ![r] = cache]
            /\ UNCHANGED <<fetchPromise, promises, awaited>>
       ELSE IF fetchPromise # 0
       THEN /\ pc' = [pc EXCEPT ![r] = "awaitShared"]
            /\ awaited' = [awaited EXCEPT ![r] = fetchPromise]
            /\ UNCHANGED <<fetchPromise, promises, result>>
       ELSE /\ promises' = Append(promises, [state |-> "pending", value |-> Null])
            /\ fetchPromise' = Len(promises) + 1
            /\ pc' = [pc EXCEPT ![r] = "awaitFetch"]
            /\ awaited' = [awaited EXCEPT ![r] = Len(promises) + 1]
            /\ UNCHANGED result
    /\ UNCHANGED <<cache, responses>>
    /\ UNCHANGED <<viewVars, labelVars, clusterVars>>

\* A #fetchAndProcess that fetches once per view: the views may come from
\* different credit lists.
FetchResolveSeparately(p, data) ==
    /\ promises[p].state = "pending"
    /\ \E other \in UpstreamData :
          promises' = [promises EXCEPT
                          ![p] = [state |-> "fulfilled",
                                  value |-> [moviesPerActor |->
                                                 buildMoviesPerActor(data, actorFilter),
                                             actorsWithMultipleCharacters |->
                                                 buildActorsWithMultipleCharacters(other, actorFilter),
                                             charactersWithMultipleActors |->
                                                 buildCharactersWithMultipleActors(other, actorFilter)]]]
    /\ UNCHANGED <<cache, fetchPromise, pc, accessor, awaited, result, responses>>
    /\ UNCHANGED <<viewVars, labelVars, clusterVars>>

\* getAllMoviesCredits resolves: #fetchAndProcess builds the three views and
\* its promise is fulfilled with them.
FetchResolve(p, data) ==
    /\ promises[p].state = "pending"
    /\ promises' = [promises EXCEPT
                       ![p] = [state |-> "fulfilled",
                               value |-> ProcessedData(data, actorFilter)]]
    /\ UNCHANGED <<cache, fetchPromise, pc, accessor, awaited, result, responses>>
    /\ UNCHANGED <<viewVars, labelVars, clusterVars>>

\* getAllMoviesCredits rejects: so does the promise of #fetchAndProcess.
FetchReject(p) ==
    /\ promises[p].state = "pending"
    /\ promises' = [promises EXCEPT ![p] = [state |-> "rejected", value |-> Null]]
    /\ UNCHANGED <<cache, fetchPromise, pc, accessor, awaited, result, responses>>
    /\ UNCHANGED <<viewVars, labelVars, clusterVars>>

\* A fetcher that gives up with a failure while the fetch is still pending
\* (a timeout on the await).
ResumeFetcherOnTimeout(r) ==
    /\ pc[r] = "awaitFetch"
    /\ IF promises[awaited[r]].state = "fulfilled"
       THEN /\ cache' = promises[awaited[r]].value
            /\ fetchPromise' = 0
            /\ pc' = [pc EXCEPT ![r] = "resolved"]
            /\ result' = [result EXCEPT ![r] = promises[awaited[r]].value]
       ELSE /\ pc' = [pc EXCEPT ![r] = "rejected"]
            /\ UNCHANGED <<cache, fetchPromise, result>>
    /\ UNCHANGED <<promises, accessor, awaited, responses>>
    /\ UNCHANGED <<viewVars, labelVars, clusterVars>>

\* The fetcher clears the promise but does not store what it awaited.
ResumeFetcherWithoutCaching(r) ==
    /\ pc[r] = "awaitFetch"
    /\ Settled(awaited[r])
    /\ IF promises[awaited[r]].state = "fulfilled"
       THEN /\ fetchPromise' = 0
            /\ pc' = [pc EXCEPT ![r] = "resolved"]
            /\ result' = [result EXCEPT ![r] = promises[awaited[r]].value]
            /\ UNCHANGED cache
       ELSE /\ pc' = [pc EXCEPT ![r] = "rejected"]
            /\ UNCHANGED <<cache, fetchPromise, result>>
    /\ UNCHANGED <<promises, accessor, awaited, responses>>
    /\ UNCHANGED <<viewVars, labelVars, clusterVars>>

\* The request that started the fetch resumes after its await: on success
\* it stores the cache and clears the promise; on failure the await throws
\* and the rest of #getProcessedData is skipped.
ResumeFetcher(r) ==
    /\ pc[r] = "awaitFetch"
    /\ Settled(awaited[r])
    /\ IF promises[awaited[r]].state = "fulfilled"
       THEN /\ cache' = promises[awaited[r]].value
            /\ fetchPromise' = 0
            /\ pc' = [pc EXCEPT ![r] = "resolved"]
            /\ result' = [result EXCEPT ![r] = promises[awaited[r]].value]
       ELSE /\ pc' = [pc EXCEPT ![r] = "rejected"]
            /\ UNCHANGED <<cache, fetchPromise, result>>
    /\ UNCHANGED <<promises, accessor, awaited, responses>>
    /\ UNCHANGED <<viewVars, labelVars, clusterVars>>

\* A request that was handed the in-flight promise resumes with its outcome.
ResumeShared(r) ==
    /\ pc[r] = "awaitShared"
    /\ Settled(awaited[r])
    /\ IF promises[awaited[r]].state = "fulfilled"
       THEN /\ pc' = [pc EXCEPT ![r] = "resolved"]
            /\ result' = [result EXCEPT ![r] = promises[awaited[r]].value]
       ELSE /\ pc' = [pc EXCEPT ![r] = "rejected"]
            /\ UNCHANGED result
    /\ UNCHANGED <<cache, fetchPromise, promises, accessor, awaited, responses>>
    /\ UNCHANGED <<viewVars, labelVars, clusterVars>>

ErrorBody == [error |-> "Failed to fetch movie data"]

\* A handler without the catch block: a failure leaves the handler with no
\* response sent.
RespondWithoutCatch(r) ==
    /\ pc[r] \in {"resolved", "rejected"}
    /\ responses' = [responses EXCEPT ![r] =
                        IF pc[r] = "resolved"
                        THEN Append(@, [status |-> 200, body |-> result[r][accessor[r]]])
                        ELSE @]
    /\ pc' = [pc EXCEPT ![r] = "done"]
    /\ UNCHANGED <<cache, fetchPromise, promises, accessor, awaited, result>>
    /\ UNCHANGED <<viewVars, labelVars, clusterVars>>

\* The rest of the controller handler: res.json(data) with the accessor's
\* view, or in the catch block res.status(500).json({ error }).
Respond(r) ==
    /\ pc[r] \in {"resolved", "rejected"}
    /\ responses' = [responses EXCEPT ![r] =
                        IF pc[r] = "resolved"
                        THEN Append(@, [status |-> 200, body |-> result[r][accessor[r]]])
                        ELSE Append(@, [status |-> 500, body |-> ErrorBody])]
    /\ pc' = [pc EXCEPT ![r] = "done"]
    /\ UNCHANGED <<cache, fetchPromise, promises, accessor, awaited, result>>
    /\ UNCHANGED <<viewVars, labelVars, clusterVars>>

Init ==
    /\ creditsData = <<>>
    /\ actorFilter = ServiceFilter
    /\ processed = Null
    /\ ServiceIdle
    /\ LabelsIdle
    /\ ClusterIdle

Next ==
    \/ \E r \in Requests, acc \in Accessors : Call(r, acc)
    \/ \E p \in 1..Len(promises), data \in UpstreamData : FetchResolve(p, data)
    \/ \E p \in 1..Len(promises) : FetchReject(p)
    \/ \E r \in Requests : ResumeFetcher(r)
    \/ \E r \in Requests : ResumeShared(r)
    \/ \E r \in Requests : Respond(r)

Spec == Init /\ [][Next]_vars

\* The event loop runs every continuation that is ready: a request whose
\* awaited promise has settled resumes, and a handler whose accessor has
\* returned or thrown responds.  Nothing makes the upstream settle and
\* nothing makes a request arrive.
SpecFair ==
    /\ Spec
    /\ \A r \in Requests :
          /\ WF_vars(ResumeFetcher(r))
          /\ WF_vars(ResumeShared(r))
          /\ WF_vars(Respond(r))

\* ------------------------------------------------------------------------
\* Properties of the fetch coordinator (Spec)
\* ------------------------------------------------------------------------
\* One element of promises per invocation of getAllMoviesCredits.
FetchInvocations == Len(promises)

Called(r) == pc[r] # "idle"

Waiting(r) == pc[r] \in {"awaitFetch", "awaitShared"}

\* The step taken is request r arriving.
Arrives(r) == pc[r] = "idle" /\ pc'[r] # "idle"

Sent(r, status) == Len(responses[r]) = 1 /\ responses[r][1].status = status

\* C1: however many requests arrive, on whatever accessors and however
\* their arrival interleaves with the completion of the fetch,
\* getAllMoviesCredits is invoked exactly once as soon as one request has
\* arrived, and a request that arrives while the fetch is in flight waits on
\* the promise of that one fetch.
C1_SingleFetch ==
    /\ FetchInvocations <= 1
    /\ (\E r \in Requests : Called(r)) => FetchInvocations = 1
    /\ \A r \in Requests : Waiting(r) => awaited[r] = 1
    /\ Cardinality({r \in Requests : pc[r] = "awaitFetch"}) <= 1

C1_Witness ==
    /\ FetchInvocations = 1
    /\ promises[1].state = "pending"
    /\ \E r \in Requests :
          /\ pc[r] = "awaitFetch"
          /\ \A q \in Requests \ {r} : pc[q] = "awaitShared" /\ accessor[q] # accessor[r]

\* The fetch failed and the request that started it has seen the failure.
FetchFailed ==
    /\ cache = Null
    /\ \A q \in Requests : pc[q] # "awaitFetch"
    /\ \E p \in 1..Len(promises) : promises[p].state = "rejected"

\* C2: after a failed fetch the coordinator is Empty again: the next
\* request to arrive starts a new fetch instead of receiving the earlier
\* failure.
C2_RetryAfterFailure ==
    [][\A r \in Requests :
          (Arrives(r) /\ FetchFailed) =>
              /\ Len(promises') = Len(promises) + 1
              /\ promises'[Len(promises')].state = "pending"
              /\ pc'[r] = "awaitFetch"]_vars

Succeeded == \E p \in 1..Len(promises) : promises[p].state = "fulfilled"

\* C3: once the fetch has succeeded it is never invoked again (one
\* invocation in all), and once the cache is filled it never changes, the
\* promise stays cleared and every request that arrives is answered from
\* the cache.
C3_CachedForever ==
    [][/\ Succeeded =>
            /\ FetchInvocations = 1
            /\ Len(promises') = 1
            /\ promises' = promises
       /\ cache # Null =>
            /\ Succeeded
            /\ cache' = cache
            /\ fetchPromise = 0 /\ fetchPromise' = 0
            /\ \A r \in Requests :
                  Arrives(r) => /\ pc'[r] = "resolved"
                                /\ result'[r] = cache
                                /\ awaited'[r] = 0]_vars

C3_Witness ==
    /\ cache # Null
    /\ \E r, q \in Requests :
          /\ r # q
          /\ awaited[r] = 0 /\ Sent(r, 200)
          /\ awaited[q] = 0 /\ Sent(q, 200)
          /\ accessor[r] # accessor[q]

\* The views of each credit list the upstream may resolve with.
UpstreamViews == [data \in UpstreamData |-> ProcessedData(data, ServiceFilter)]

\* C4: all the views the requests of one service receive, whether they
\* waited for the fetch or arrived after it, come from one and the same
\* fetched credit list; so two requests on the same accessor receive
\* identical output.
C4_IdenticalOutputs ==
    /\ \E data \in UpstreamData :
          \A r \in Requests :
             Sent(r, 200) => responses[r][1].body = UpstreamViews[data][accessor[r]]
    /\ \A r, q \in Requests :
          (Sent(r, 200) /\ Sent(q, 200) /\ accessor[r] = accessor[q])
              => responses[r][1].body = responses[q][1].body

C4_Witness ==
    \E r \in Requests :
       /\ awaited[r] = 0 /\ Sent(r, 200)
       /\ \A q \in Requests \ {r} :
             awaited[q] = 1 /\ Sent(q, 200) /\ accessor[q] = accessor[r]

\* C10: a request whose fetch was rejected fails, its handler answers it
\* with status 500 and the generic message and with nothing else; a handler
\* that has finished has sent exactly one response, data (200) only when the
\* fetch it waited on succeeded or the cache served it.
C10_OneResponse ==
    \A r \in Requests :
       /\ Len(responses[r]) <= 1
       /\ (pc[r] = "done") <=> (Len(responses[r]) = 1)
       /\ (Waiting(r) /\ promises[awaited[r]].state = "rejected") => result[r] = Null
       /\ (pc[r] = "rejected") =>
             awaited[r] # 0 /\ promises[awaited[r]].state = "rejected"
       /\ (pc[r] = "resolved") =>
             awaited[r] = 0 \/ promises[awaited[r]].state = "fulfilled"
       /\ (pc[r] = "done" /\ awaited[r] # 0 /\ promises[awaited[r]].state = "rejected")
             => responses[r] = <<[status |-> 500, body |-> ErrorBody]>>
       /\ (pc[r] = "done" /\ (awaited[r] = 0 \/ promises[awaited[r]].state = "fulfilled"))
             => Sent(r, 200) /\ responses[r][1].body = result[r][accessor[r]]

C10_Witness ==
    /\ FetchInvocations = 1
    /\ promises[1].state = "rejected"
    /\ \A r \in Requests :
          awaited[r] = 1 /\ responses[r] = <<[status |-> 500, body |-> ErrorBody]>>

\* The request has its outcome: the accessor returned or threw.
Completed(r) == pc[r] \in {"resolved", "rejected", "done"}

\* C19: a request gets its outcome only once the fetch has settled: while
\* the promise it waits on is pending it stays where it is, whatever else
\* happens; and a request whose fetch has settled, whether it was waiting or
\* arrived later, is eventually answered.
C19_BlockedUntilSettled ==
    /\ [](\A r \in Requests :
             Completed(r) => /\ promises # <<>>
                             /\ Settled(1)
                             /\ awaited[r] # 0 => Settled(awaited[r]))
    /\ [][\A r \in Requests :
             (Waiting(r) /\ promises'[awaited[r]].state = "pending")
                 => (pc'[r] = pc[r] /\ responses'[r] = <<>>)]_vars
    /\ \A r \in Requests :
          (Called(r) /\ (awaited[r] = 0 \/ Settled(awaited[r]))) ~> (pc[r] = "done")

C19_Witness ==
    /\ FetchInvocations = 1
    /\ Settled(1)
    /\ \E r, q \in Requests :
          /\ pc[r] = "done" /\ awaited[r] = 1
          /\ pc[q] = "awaitShared" /\ awaited[q] = 1
          /\ \A o \in Requests \ {r, q} : pc[o] = "idle"

\* The value is the three views of one of the upstream's credit lists.
WholeSnapshot(v) == \E data \in UpstreamData : v = UpstreamViews[data]

\* C20: the promise of #fetchAndProcess is fulfilled in one step with the
\* three views of one fetched credit list and keeps that value; the cache is
\* empty until it is filled, in one step, with the value of the fulfilled
\* promise, and never changes afterwards; whatever a request is given is
\* the value of the fulfilled promise, the cached one once there is a cache.
C20_CacheWholeOrEmpty ==
    [][/\ \A p \in 1..Len(promises) :
             /\ (promises[p].state = "pending" /\ promises'[p].state = "fulfilled")
                   => WholeSnapshot(promises'[p].value)
             /\ promises[p].state = "fulfilled" => promises'[p] = promises[p]
       /\ cache # Null => cache' = cache
       /\ (cache = Null /\ cache' # Null) =>
             \E p \in 1..Len(promises) :
                /\ promises[p].state = "fulfilled"
                /\ cache' = promises[p].value
       /\ \A r \in Requests :
             /\ result'[r] # result[r] =>
                   \E p \in 1..Len(promises) :
                      /\ promises[p].state = "fulfilled"
                      /\ result'[r] = promises[p].value
             /\ (result'[r] # Null /\ cache' # Null) => result'[r] = cache']_vars

C20_Witness ==
    /\ cache # Null
    /\ WholeSnapshot(cache)
    /\ \E r, q \in Requests :
          /\ pc[r] = "resolved" /\ awaited[r] = 0 /\ result[r] = cache
          /\ pc[q] = "resolved" /\ awaited[q] = 1 /\ result[q] = cache
          /\ \A o \in Requests \ {r, q} : pc[o] = "done" /\ awaited[o] = 1

\* ------------------------------------------------------------------------
\* Properties of the three views (SpecViews)
\* ------------------------------------------------------------------------
\* Every cast entry of the credit list with its movie, in list order,
\* whatever its performer.
RECURSIVE AllEntries(_)
AllEntries(data) ==
    IF data = <<>> THEN <<>>
    ELSE LET rec == Head(data)
         IN (IF "cast" \in DOMAIN rec.credits
             THEN [i \in 1..Len(rec.credits.cast) |->
                      [movieName |-> rec.movieName,
                       name |-> rec.credits.cast[i].name,
                       character |-> rec.credits.cast[i].character]]
             ELSE <<>>)
            \o AllEntries(Tail(data))

EntriesOf(p) == SelectSeq(AllEntries(creditsData), LAMBDA e : e.name = p)

FilteredEntries == SelectSeq(AllEntries(creditsData), LAMBDA e : e.name \in actorFilter)

LabelsOf(entries) == [i \in 1..Len(entries) |-> entries[i].character]

\* The credit list without the cast entries of performers outside the filter.
Purged(data, filter) ==
    [i \in 1..Len(data) |->
        IF "cast" \in DOMAIN data[i].credits
        THEN [movieName |-> data[i].movieName,
              credits |-> [cast |-> SelectSeq(data[i].credits.cast,
                                              LAMBDA e : e.name \in filter)]]
        ELSE data[i]]

\* S is the set of group leaders of a greedy pass over the labels: a label
\* leads a group exactly when it matches no leader before it.
IsLeaderSet(S, labels) ==
    \A i \in 1..Len(labels) :
       (i \in S) <=> (\A j \in S : j < i => ~isSameCharacter(labels[j], labels[i]))

LeadersOf(labels) == CHOOSE S \in SUBSET (1..Len(labels)) : IsLeaderSet(S, labels)

\* The members of the group led by i: i, and every later non-leader whose
\* first matching leader is i.
GroupOf(i, S, labels) ==
    {k \in 1..Len(labels) :
        \/ k = i
        \/ /\ k \notin S
           /\ i < k
           /\ isSameCharacter(labels[i], labels[k])
           /\ \A j \in S : j < i => ~isSameCharacter(labels[j], labels[k])}

\* The elements of a set of numbers in increasing order.
InOrder(S) ==
    [k \in 1..Cardinality(S) |-> CHOOSE i \in S : Cardinality({j \in S : j <= i}) = k]

\* C5: a cast entry whose performer is outside the filter contributes to no
\* view: every key of moviesPerActor and of actorsWithMultipleCharacters and
\* every actorName in charactersWithMultipleActors is in the filter, and the
\* three views are those of the credit list without such entries.
C5_FilterExcludes ==
    processed # Null =>
        /\ ObjKeys(processed.moviesPerActor) \subseteq actorFilter
        /\ ObjKeys(processed.actorsWithMultipleCharacters) \subseteq actorFilter
        /\ \A g \in 1..Len(processed.charactersWithMultipleActors) :
              LET apps == processed.charactersWithMultipleActors[g][2]
              IN \A i \in 1..Len(apps) : apps[i].actorName \in actorFilter
        /\ processed = ProcessedData(Purged(creditsData, actorFilter), actorFilter)

C5_Witness ==
    /\ processed # Null
    /\ actorFilter = {"X"}
    /\ \E i, j \in 1..Len(AllEntries(creditsData)) :
          LET all == AllEntries(creditsData)
          IN /\ i < j
             /\ all[i].name = "Y" /\ all[j].name = "X"
             /\ isSameCharacter(all[i].character, all[j].character)
    /\ ObjHas(processed.moviesPerActor, "X")

\* C6: moviesPerActor maps each performer of the filter that has cast
\* entries to the movie titles of those entries, one per entry, in input
\* order, duplicates kept; it has no other key.
C6_TitlesInOrder ==
    processed # Null =>
        \A p \in Actors :
           LET own == EntriesOf(p)
               titles == [i \in 1..Len(own) |-> own[i].movieName]
           IN IF p \in actorFilter /\ own # <<>>
              THEN /\ ObjHas(processed.moviesPerActor, p)
                   /\ ObjGet(processed.moviesPerActor, p) = titles
              ELSE ~ObjHas(processed.moviesPerActor, p)

C6_Witness ==
    /\ processed # Null
    /\ ObjHas(processed.moviesPerActor, "X")
    /\ ObjGet(processed.moviesPerActor, "X") = <<"M1", "M2", "M1">>

\* C7: actorsWithMultipleCharacters groups the appearances of each
\* performer of the filter on their own, holds the performer exactly when
\* there is more than one group, and maps the performer to the first member
\* of each group in the order the groups were created.
C7_RepresentativePerGroup ==
    processed # Null =>
        \A p \in Actors :
           LET own == EntriesOf(p)
               S == LeadersOf(LabelsOf(own))
               view == processed.actorsWithMultipleCharacters
           IN /\ ObjHas(view, p) <=> (p \in actorFilter /\ Cardinality(S) > 1)
              /\ ObjHas(view, p) =>
                    /\ Len(ObjGet(view, p)) >= 2
                    /\ ObjGet(view, p) =
                          [k \in 1..Cardinality(S) |->
                              [movieName |-> own[InOrder(S)[k]].movieName,
                               characterName |-> own[InOrder(S)[k]].character]]

C7_Witness ==
    /\ processed # Null
    /\ LET own == EntriesOf("X")
       IN /\ Len(own) = 3
          /\ isSameCharacter(own[1].character, own[2].character)
          /\ ~isSameCharacter(own[1].character, own[3].character)
          /\ isSameCharacter(own[2].character, own[3].character)
          /\ ObjHas(processed.actorsWithMultipleCharacters, "X")
          /\ ObjGet(processed.actorsWithMultipleCharacters, "X") =
                <<[movieName |-> own[1].movieName, characterName |-> own[1].character],
                  [movieName |-> own[3].movieName, characterName |-> own[3].character]>>

\* All the appearances of the performer carry labels of one character.
SameCharacterThroughout(labels) ==
    \A i, j \in 1..Len(labels) : isSameCharacter(labels[i], labels[j])

SameLabelThroughout(labels) ==
    \A i \in 1..Len(labels) : labels[i] = labels[1]

C9_GroupsWithSeveralActors ==
    processed # Null =>
        LET all == FilteredEntries
            labels == LabelsOf(all)
            S == LeadersOf(labels)
            view == processed.charactersWithMultipleActors
            Qualifies(i) ==
                Cardinality({all[k].name : k \in GroupOf(i, S, labels)}) > 1
            Members(i) ==
                LET ks == InOrder(GroupOf(i, S, labels))
                IN [n \in 1..Len(ks) |->
                       [movieName |-> all[ks[n]].movieName, actorName |-> all[ks[n]].name]]
        IN /\ \A i \in S :
                 Qualifies(i) => /\ ObjHas(view, labels[i])
                                 /\ ObjGet(view, labels[i]) = Members(i)
           /\ \A key \in ObjKeys(view) : \E i \in S : labels[i] = key /\ Qualifies(i)
           /\ Len(view) = Cardinality({i \in S : Qualifies(i)})

C9_Witness ==
    /\ processed # Null
    /\ Len(FilteredEntries) = 3
    /\ processed.charactersWithMultipleActors =
          <<<<LabelA, <<[movieName |-> "M1", actorName |-> "X"],
                        [movieName |-> "M2", actorName |-> "Y"]>>>>>>

\* ------------------------------------------------------------------------
\* Properties of the reducers on incomplete input (SpecEntries, SpecViews)
\* ------------------------------------------------------------------------
IsComplete(entry) == "name" \in DOMAIN entry /\ "character" \in DOMAIN entry

\* The credit list without the cast entries that lack a name or a character.
WithoutIncomplete(data) ==
    [i \in 1..Len(data) |->
        IF "cast" \in DOMAIN data[i].credits
        THEN [movieName |-> data[i].movieName,
              credits |-> [cast |-> SelectSeq(data[i].credits.cast, IsComplete)]]
        ELSE data[i]]

\* C11: a cast entry without a name or without a character is skipped by
\* the three reducers: the views are those of the credit list without such
\* entries (no title, no group, no appearance comes from them).
C11_IncompleteSkipped ==
    processed # Null =>
        processed = ProcessedData(WithoutIncomplete(creditsData), actorFilter)

\* The credit list without the records that have no cast or an empty one.
WithoutEmptyRecords(data) ==
    SelectSeq(data, LAMBDA rec : "cast" \in DOMAIN rec.credits /\ rec.credits.cast # <<>>)

\* C12: a record whose credits have no cast, or an empty cast, contributes
\* nothing: the three views are those of the credit list without such
\* records.
C12_NoCastNoAppearances ==
    processed # Null =>
        processed = ProcessedData(WithoutEmptyRecords(creditsData), actorFilter)

C12_Witness ==
    /\ processed # Null
    /\ Len(creditsData) = 3
    /\ "cast" \notin DOMAIN creditsData[1].credits
    /\ "cast" \in DOMAIN creditsData[2].credits
    /\ creditsData[2].credits.cast = <<>>
    /\ "cast" \in DOMAIN creditsData[3].credits
    /\ creditsData[3].credits.cast = <<[name |-> "X", character |-> LabelA]>>
    /\ processed.moviesPerActor = <<<<"X", <<creditsData[3].movieName>>>>>>
    /\ Len(WithoutEmptyRecords(creditsData)) = 1

\* ------------------------------------------------------------------------
\* Properties of cleanCharacterName and isSameCharacter (SpecLabels)
\* ------------------------------------------------------------------------
\* C13: the verdict of isSameCharacter does not depend on the order of its
\* two arguments, null, empty and annotation-only labels included.
C13_Symmetric ==
    verdict # Null => verdict.forward = verdict.backward

C13_Witness ==
    /\ verdict # Null
    /\ left = <<"(", ")", "a">>
    /\ right = LabelAB
    /\ verdict.forward
    /\ verdict.backward

\* C14: cleaning a cleaned label changes nothing, whatever the nesting,
\* balance and adjacency of its parentheses; null and the empty string are
\* cleaned to the empty string.
C14_Idempotent ==
    cleaned # Null =>
        /\ cleaned.twice = cleaned.once
        /\ (left = Undefined \/ left = <<>>) => cleaned.once = <<>>

C14_Witness ==
    /\ cleaned # Null
    /\ left = <<"(", ")", "(", "a", ")">>
    /\ cleaned.once = <<>>
    /\ cleaned.twice = <<>>

\* ------------------------------------------------------------------------
\* Properties of the grouping loops (SpecCluster)
\* ------------------------------------------------------------------------
Grouping == pass.loop # "none"

\* All the appearances of the running loop, taken or not.
Input == LoopInput(creditsData, actorFilter, pass)

InputLabels == [i \in 1..Len(Input) |-> Input[i].characterName]

\* Number of appearances the loop has taken.
Taken == Len(Input) - Len(queue)

TakenLabels == SubSeq(InputLabels, 1, Taken)

\* What the loop stores in a group for an appearance.
MemberOf(x) ==
    IF pass.loop = "actors" THEN x
    ELSE [movieName |-> x.movieName, actorName |-> x.actorName]

GroupMembers(g) == IF pass.loop = "actors" THEN g ELSE g.appearances

\* The label a group is compared by.
GroupLabel(g) == IF pass.loop = "actors" THEN g[1].characterName ELSE g.name

\* The group made of the appearances at the given positions of the input.
GroupOfInput(input, positions) ==
    IF pass.loop = "actors"
    THEN [j \in 1..Len(positions) |-> input[positions[j]]]
    ELSE [name |-> input[positions[1]].characterName,
          appearances |-> [j \in 1..Len(positions) |-> MemberOf(input[positions[j]])]]

GroupAt(positions) == GroupOfInput(Input, positions)

Empties(labels) == {i \in 1..Len(labels) : cleanCharacterName(labels[i]) = <<>>}

\* C15: after every step of either loop the groups are those of the
\* first-member rule: an appearance leads a group exactly when its label
\* matches the first-member label of no group created before, otherwise it
\* is in the earliest created group whose first-member label it matches;
\* groups are in creation order and labels of later members decide nothing.
C15_FirstMemberFirstMatch ==
    Grouping =>
        LET input == Input
            labels == TakenLabels
            S == LeadersOf(labels)
            order == InOrder(S)
        IN /\ Len(groups) = Cardinality(S)
           /\ \A k \in 1..Len(groups) :
                 /\ GroupLabel(groups[k]) = labels[order[k]]
                 /\ groups[k] = GroupOfInput(input, InOrder(GroupOf(order[k], S, labels)))

C15_Witness ==
    /\ pass.loop = "characters"
    /\ queue = <<>>
    /\ InputLabels = <<LabelA, LabelB, LabelAB>>
    /\ Len(groups) = 2
    /\ Len(groups[1].appearances) = 2
    /\ groups[2].name = LabelB

\* C16: a step of either loop leaves every group where it is, with the
\* members it had in the places they had and with the label it had; it adds
\* one appearance, at the end of a group or as a new last group whose label
\* is that of the appearance.
C16_NoReevaluation ==
    [][Grouping =>
          /\ Len(groups') >= Len(groups)
          /\ Len(groups') <= Len(groups) + 1
          /\ \A i \in 1..Len(groups) :
                /\ GroupLabel(groups'[i]) = GroupLabel(groups[i])
                /\ Len(GroupMembers(groups'[i])) >= Len(GroupMembers(groups[i]))
                /\ SubSeq(GroupMembers(groups'[i]), 1, Len(GroupMembers(groups[i])))
                      = GroupMembers(groups[i])
          /\ Len(groups') = Len(groups) + 1 =>
                /\ GroupLabel(groups'[Len(groups')]) = Head(queue).characterName
                /\ GroupMembers(groups'[Len(groups')]) = <<MemberOf(Head(queue))>>]_vars

C16_Witness ==
    /\ pass.loop = "characters"
    /\ queue = <<>>
    /\ Len(groups) = 2
    /\ groups[1].name = LabelAB
    /\ Len(groups[1].appearances) = 2
    /\ InputLabels = <<LabelAB, LabelNote, LabelB>>

\* The groups of the given appearances, by the loop that runs.
Regroup(appearances) ==
    IF pass.loop = "actors" THEN ActorGroups(appearances, <<>>)
    ELSE CharacterGroups(appearances, <<>>)

\* C17: three appearances labelled A, B, C with A ~ B, B ~ C and not A ~ C
\* are grouped {A, B}, {C} when taken in the order A, B, C and {B, A, C}
\* when taken in the order B, A, C.
C17_OrderDependent ==
    (Grouping /\ queue = <<>> /\ Len(Input) = 3) =>
        LET l == InputLabels
        IN /\ (/\ isSameCharacter(l[1], l[2])
               /\ isSameCharacter(l[2], l[3])
               /\ ~isSameCharacter(l[1], l[3]))
                 => /\ groups = <<GroupAt(<<1, 2>>), GroupAt(<<3>>)>>
                    /\ Len(Regroup(<<Input[2], Input[1], Input[3]>>)) = 1
           /\ (/\ isSameCharacter(l[2], l[1])
               /\ isSameCharacter(l[1], l[3])
               /\ ~isSameCharacter(l[2], l[3]))
                 => /\ groups = <<GroupAt(<<1, 2, 3>>)>>
                    /\ Len(Regroup(<<Input[2], Input[1], Input[3]>>)) = 2

C17_Witness ==
    /\ pass.loop = "actors"
    /\ queue = <<>>
    /\ InputLabels = <<LabelA, LabelAB, LabelB>>
    /\ Len(groups) = 2
    /\ Len(groups[1]) = 2
    /\ Len(groups[2]) = 1

\* C18: a label that cleans to the empty string (null, missing, an
\* annotation only) is the same character as no label, itself included; so
\* in either loop an appearance with such a label always starts a group and
\* that group never gets a second member.
C18_EmptyNeverMatches ==
    Grouping =>
        LET labels == InputLabels
            taken == SubSeq(labels, 1, Len(labels) - Len(queue))
        IN /\ \A i \in Empties(labels), j \in 1..Len(labels) :
                 /\ ~isSameCharacter(labels[i], labels[j])
                 /\ ~isSameCharacter(labels[j], labels[i])
           /\ \A k \in 1..Len(groups) :
                 cleanCharacterName(GroupLabel(groups[k])) = <<>>
                     => Len(GroupMembers(groups[k])) = 1
           /\ Cardinality({k \in 1..Len(groups) :
                              cleanCharacterName(GroupLabel(groups[k])) = <<>>})
                 = Cardinality(Empties(taken))

C18_Witness ==
    /\ pass.loop = "actors"
    /\ queue = <<>>
    /\ InputLabels = <<LabelNote, LabelNote, Undefined>>
    /\ Len(groups) = 3

\* sub is full with some elements left out.
RECURSIVE IsSubsequence(_, _)
IsSubsequence(sub, full) ==
    IF sub = <<>> THEN TRUE
    ELSE IF full = <<>> THEN FALSE
    ELSE IF Head(sub) = Head(full) THEN IsSubsequence(Tail(sub), Tail(full))
    ELSE IsSubsequence(sub, Tail(full))

Occurrences(seq, v) == Cardinality({i \in 1..Len(seq) : seq[i] = v})

\* Number of members of the groups, and number of those equal to v.
RECURSIVE TotalMembers(_)
TotalMembers(gs) ==
    IF gs = <<>> THEN 0 ELSE Len(GroupMembers(Head(gs))) + TotalMembers(Tail(gs))

RECURSIVE TotalOccurrences(_, _)
TotalOccurrences(gs, v) ==
    IF gs = <<>> THEN 0
    ELSE Occurrences(GroupMembers(Head(gs)), v) + TotalOccurrences(Tail(gs), v)

\* C21: after every step of either loop the groups partition the
\* appearances taken so far: no group is empty, the members of a group are
\* taken appearances in input order, every taken appearance is in the groups
\* as many times as it was taken, and the group sizes add up to the number
\* of appearances taken.
C21_GroupsPartition ==
    Grouping =>
        LET input == Input
            n == Len(input) - Len(queue)
            taken == [i \in 1..n |-> MemberOf(input[i])]
        IN /\ \A k \in 1..Len(groups) :
                 /\ GroupMembers(groups[k]) # <<>>
                 /\ IsSubsequence(GroupMembers(groups[k]), taken)
           /\ TotalMembers(groups) = n
           /\ \A i \in 1..n :
                 TotalOccurrences(groups, taken[i]) = Occurrences(taken, taken[i])

C21_Witness ==
    /\ pass.loop = "characters"
    /\ Len(queue) = 1
    /\ Len(groups) = 1
    /\ groups[1].appearances = <<[movieName |-> "M1", actorName |-> "X"],
                                 [movieName |-> "M2", actorName |-> "Y"]>>
    /\ Head(queue).characterName = LabelNote

\* C22: after every step of either loop the first-member labels of two
\* different groups are not the same character; an appearance that joins a
\* group has a label that is the same character as that group's
\* first-member label and as the first-member label of no group created
\* before it, and an appearance that starts a group matches the
\* first-member label of no existing group.  Where the members keep their
\* labels (buildActorsWithMultipleCharacters) the same is read off the
\* groups themselves.
C22_MembersMatchLeader ==
    /\ [](Grouping =>
             /\ \A i, j \in 1..Len(groups) :
                   i < j => ~isSameCharacter(GroupLabel(groups[i]), GroupLabel(groups[j]))
             /\ pass.loop = "actors" =>
                   \A k \in 1..Len(groups) :
                      \A m \in 2..Len(groups[k]) :
                         /\ isSameCharacter(groups[k][1].characterName,
                                            groups[k][m].characterName)
                         /\ \A i \in 1..(k - 1) :
                               ~isSameCharacter(groups[i][1].characterName,
                                                groups[k][m].characterName))
    /\ [][(Grouping /\ queue # <<>> /\ queue' = Tail(queue)) =>
             LET label == Head(queue).characterName
             IN /\ \A g \in 1..Len(groups) :
                      groups'[g] # groups[g] =>
                         /\ isSameCharacter(GroupLabel(groups[g]), label)
                         /\ \A i \in 1..(g - 1) :
                               ~isSameCharacter(GroupLabel(groups[i]), label)
                /\ Len(groups') > Len(groups) =>
                      \A i \in 1..Len(groups) :
                         ~isSameCharacter(GroupLabel(groups[i]), label)]_vars

C22_Witness ==
    /\ pass.loop = "actors"
    /\ queue = <<>>
    /\ Len(groups) = 2
    /\ Len(groups[1]) = 2
    /\ groups[1][1].characterName = LabelB
    /\ groups[1][2].characterName = LabelAB
    /\ groups[2][1].characterName = LabelA

\* The groups whose members have more than one performer.
Qualifying(gs) ==
    {k \in 1..Len(gs) :
        \E m, n \in 1..Len(gs[k].appearances) :
           gs[k].appearances[m].actorName # gs[k].appearances[n].actorName}

\* C23: when buildCharactersWithMultipleActors has written its result, no
\* two groups with more than one performer have the same label, the result
\* has one key per such group and holds, under the label of each, all the
\* appearances of the group.
C23_NoOverwrite ==
    (pass.loop = "characters" /\ processed # Null) =>
        LET Q == Qualifying(groups)
            view == processed.result
        IN /\ \A j, k \in Q : j # k => groups[j].name # groups[k].name
           /\ Len(view) = Cardinality(Q)
           /\ \A k \in Q :
                 /\ ObjHas(view, groups[k].name)
                 /\ ObjGet(view, groups[k].name) = groups[k].appearances

====
